---- MODULE Spec2Model ----
(***************************************************************************)
(* Payment reconciliation of server/controller/Paymentcontoller.js:        *)
(* the Payment collection (a MongoDB collection read in natural order),    *)
(* the browser entry points saveFrontendSession and markSessionCanceled,   *)
(* and the Stripe webhook endpoint handleWebhook with its handlers.        *)
(*                                                                         *)
(* Amounts are kept as [whole, cents] of the major unit, so the division   *)
(* by 100 the code applies to processor amounts is a real conversion.      *)
(* A missing / null field is NULL (strings), NoAmount (amounts) or 0       *)
(* (numbers, dates): MongoDB's {field: null} matches both.                 *)
(***************************************************************************)
EXTENDS Integers, Sequences, FiniteSets, TLC

VARIABLES
  payments,   \* the Payment collection, in insertion (natural) order
  plans,      \* the Plan collection: plan id -> document
  env,        \* process.env: which secrets are configured
  resp,       \* HTTP status of the last response sent (0: none yet)
  onlyP,      \* history: every request so far described the logical payment P
  hist,       \* history: the webhook deliveries so far, while they are the A/B scenario
  conc,       \* the two in-flight requests of the concurrent specification
  last        \* history: the request served last, in the schedule specification

vars == <<payments, plans, env, resp, onlyP, hist, conc, last>>

-----------------------------------------------------------------------------
(* Bounds of the model *)

MaxRecords == 2     \* documents the Payment collection may hold

-----------------------------------------------------------------------------
(* Values *)

NULL == "null"

Amount(w, c) == [whole |-> w, cents |-> c]
NoAmount == Amount(-1, 0)          \* amount: null / field missing
ZeroAmount == Amount(0, 0)

\* the processor amount stored as it comes, without the division
MinorToMajorUndivided(m) == Amount(m, 0)

\* x / 100 on a processor amount in minor units (lines 273, 312, 381, 530, 563)
MinorToMajor(m) == Amount(m \div 100, m % 100)

\* plan.Price is already a major-unit number (line 273)
PriceAmount(p) == Amount(p, 0)

\* Date.now at insert (schema defaults); one abstract instant of the server clock
NowMs == 5000 * 1000

\* new Date(invoice.created * 1000), line 539
SecondsToDate(s) == s * 1000

\* identifiers of the logical payment P and of one other payment
SessS == "cs_S"
PiX == "pi_X"
ChC == "ch_C"
Sess2 == "cs_2"
Pi1 == "pi_1"
Ch1 == "ch_1"

PlanIds == {"p1"}                  \* plans present in the Plan collection

\* the first charge of a payment intent as the processor reports it
ChargeOf(pi) == IF pi = PiX THEN ChC ELSE Ch1

\* the card of a charge paid by card
Card == [brand |-> "visa", funding |-> "credit", last4 |-> "4242",
         exp_month |-> 12, exp_year |-> 2030]

ChargeKinds == {"none", "nocard", "card"}   \* no charge / charge without card / card charge

-----------------------------------------------------------------------------
(* The Payment schema and the store primitive *)

\* a document as Mongoose inserts it on upsert: schema defaults only.
\* Of the schema's fields the model keeps those some handler writes and some
\* filter or claim reads.  Left out: stripeRaw (an opaque copy of the triggering
\* payload), stripePaymentMethodId (written with stripeChargeId at line 319) and
\* the fields no handler writes; nothing reads them.
NewDoc ==
  [ plan |-> NULL, amount |-> NoAmount, currency |-> "INR", status |-> "pending",
    stripeCheckoutSessionId |-> NULL, stripePaymentIntentId |-> NULL,
    stripeChargeId |-> NULL, stripeSubscriptionId |-> NULL,
    cardBrand |-> NULL, cardFunding |-> "unknown", cardLast4 |-> NULL,
    cardExpMonth |-> 0, cardExpYear |-> 0,
    createdAt |-> NowMs, updatedAt |-> NowMs ]

\* $set: the fields of upd replace those of doc, the others stay
Merge(doc, upd) ==
  [f \in DOMAIN doc |-> IF f \in DOMAIN upd THEN upd[f] ELSE doc[f]]

\* one clause {f1: v1, ...} of a filter
MatchesClause(doc, clause) == \A f \in DOMAIN clause : doc[f] = clause[f]

\* a filter is the set of its $or clauses (a plain filter is one clause)
Matches(doc, filter) == \E clause \in filter : MatchesClause(doc, clause)

\* findOne without sort: the first matching document in natural order, 0 if none
FirstMatch(store, filter) ==
  IF \E i \in 1..Len(store) : Matches(store[i], filter)
  THEN CHOOSE i \in 1..Len(store) :
         /\ Matches(store[i], filter)
         /\ \A j \in 1..(i-1) : ~Matches(store[j], filter)
  ELSE 0

\* the document an upsert inserts when its filter matched nothing: seed holds the
\* filter's top-level equality fields, which MongoDB copies into it
UpsertDoc(upd, seed) == Merge(Merge(NewDoc, seed), upd)

\* the read of findOneAndUpdate: the matched document is updated at once
UpsertRead(store, filter, upd) ==
  LET i == FirstMatch(store, filter) IN
  IF i > 0 THEN [matched |-> TRUE, store |-> [store EXCEPT ![i] = Merge(store[i], upd)]]
  ELSE [matched |-> FALSE, store |-> store]

\* Payment.findOneAndUpdate(filter, update, {upsert}) served alone
FindOneAndUpdate(store, filter, upd, upsert, seed) ==
  LET r == UpsertRead(store, filter, upd) IN
  IF r.matched THEN r.store
  ELSE IF upsert THEN Append(store, UpsertDoc(upd, seed))
  ELSE store

\* the empty function, for filters that seed nothing ($or filters)
NoSeed == [f \in {} |-> NULL]

-----------------------------------------------------------------------------
(* saveFrontendSession, lines 254-364 *)

\* a || b on identifiers
Or(a, b) == IF a # NULL THEN a ELSE b

\* process.env.STRIPE_CURRENCY is not set in this deployment
EnvCurrency == NULL

\* String(f).toLowerCase() on the funding values the processor sends
ToLower(f) == IF f = "CREDIT" THEN "credit" ELSE f

normalizeFunding(f) ==
  IF f = NULL THEN "unknown"
  ELSE IF ToLower(f) \in {"credit", "debit", "prepaid"} THEN ToLower(f)
  ELSE "unknown"

\* Number(amount) || 0
NumberOrZero(a) == IF a = NoAmount THEN ZeroAmount ELSE a

\* lines 273-294: paymentData as initialised from the session alone
SessionPaymentData(session, planId, price) ==
  [ plan |-> planId,
    amount |-> NumberOrZero(IF session.amount_total # 0
                            THEN MinorToMajor(session.amount_total)
                            ELSE PriceAmount(price)),
    currency |-> Or(session.currency, Or(EnvCurrency, "inr")),
    status |-> IF session.payment_status = "paid" THEN "succeeded" ELSE "pending",
    stripeCheckoutSessionId |-> session.id,
    stripePaymentIntentId |-> session.payment_intent,
    stripeChargeId |-> NULL,
    cardBrand |-> NULL, cardFunding |-> "unknown", cardLast4 |-> NULL,
    cardExpMonth |-> 0, cardExpYear |-> 0 ]

\* lines 297-304 and 321-328: card details; a field the card lacks keeps pd's value
\* (null / "unknown" at line 297, where pd still holds the initial values)
WithCard(pd, card) ==
  Merge(pd, [ cardBrand |-> Or(card.brand, pd.cardBrand),
              cardFunding |-> IF card.funding # NULL
                              THEN normalizeFunding(card.funding)
                              ELSE pd.cardFunding,
              cardLast4 |-> Or(card.last4, pd.cardLast4),
              cardExpMonth |-> IF card.exp_month # 0 THEN card.exp_month
                               ELSE pd.cardExpMonth,
              cardExpYear |-> IF card.exp_year # 0 THEN card.exp_year
                              ELSE pd.cardExpYear ])

\* lines 307-334: enrichment from the retrieved payment intent; fetch.ok is
\* FALSE when stripe.paymentIntents.retrieve throws (caught and logged)
WithPaymentIntent(pd, fetch) ==
  IF ~fetch.ok THEN pd
  ELSE
    LET a == Merge(pd,
               [ amount |-> IF fetch.amount # 0 THEN MinorToMajor(fetch.amount)
                            ELSE pd.amount,
                 currency |-> Or(fetch.currency, pd.currency),
                 status |-> IF fetch.status = "succeeded" THEN "succeeded"
                            ELSE pd.status ])
        b == IF fetch.chargeKind = "none" THEN a
             ELSE Merge(a, [ stripeChargeId |-> ChargeOf(pd.stripePaymentIntentId) ])
    IN IF fetch.chargeKind = "card" THEN WithCard(b, Card) ELSE b

\* SaveFilter with the fallback clause comparing the amount in minor units
SaveFilterMinorAmount(pd) ==
  (IF pd.stripePaymentIntentId # NULL
   THEN {[stripePaymentIntentId |-> pd.stripePaymentIntentId]} ELSE {})
  \cup
  (IF pd.stripeCheckoutSessionId # NULL
   THEN {[stripeCheckoutSessionId |-> pd.stripeCheckoutSessionId]} ELSE {})
  \cup
  {[plan |-> pd.plan, amount |-> Amount(pd.amount.whole * 100 + pd.amount.cents, 0)]}

\* lines 337-343: the $or filter; the {plan, amount} clause is always present
SaveFilter(pd) ==
  (IF pd.stripePaymentIntentId # NULL
   THEN {[stripePaymentIntentId |-> pd.stripePaymentIntentId]} ELSE {})
  \cup
  (IF pd.stripeCheckoutSessionId # NULL
   THEN {[stripeCheckoutSessionId |-> pd.stripeCheckoutSessionId]} ELSE {})
  \cup
  {[plan |-> pd.plan, amount |-> pd.amount]}

\* lines 279-334: the whole of paymentData
SavePaymentData(session, planId, price, stripeKey, fetch) ==
  LET pd0 == SessionPaymentData(session, planId, price)
      pd1 == IF session.card THEN WithCard(pd0, Card) ELSE pd0
  IN IF stripeKey /\ session.payment_intent # NULL
     THEN WithPaymentIntent(pd1, fetch) ELSE pd1

\* the handler: the store it leaves and the status it answers with
saveFrontendSession(store, planDb, e, session, planFromClient, fetch) ==
  LET planId == Or(session.metaPlan, planFromClient) IN
  IF planId = NULL THEN [store |-> store, resp |-> 400]
  ELSE IF planId \notin DOMAIN planDb THEN [store |-> store, resp |-> 404]
  ELSE
    LET pd == SavePaymentData(session, planId, planDb[planId].Price,
                              e.stripeKey, fetch)
    IN [ store |-> FindOneAndUpdate(store, SaveFilter(pd), pd, TRUE, NoSeed),
         resp |-> 200 ]

-----------------------------------------------------------------------------
(* markSessionCanceled, lines 367-402 *)

\* lines 380-392: the record written from the re-fetched session
CancelPaymentData(session) ==
  [ plan |-> session.metaPlan,
    amount |-> NumberOrZero(IF session.amount_total # 0
                            THEN MinorToMajor(session.amount_total)
                            ELSE NoAmount),
    currency |-> Or(session.currency, Or(EnvCurrency, "inr")),
    status |-> "canceled",
    stripeCheckoutSessionId |-> session.id,
    stripePaymentIntentId |-> session.payment_intent ]

\* sessionId: the route parameter; fetched: what stripe.checkout.sessions.retrieve
\* answers (fetched.ok FALSE when it throws)
markSessionCanceled(store, e, sessionId, fetched) ==
  IF sessionId = NULL THEN [store |-> store, resp |-> 400]
  ELSE IF ~e.stripeKey THEN [store |-> store, resp |-> 500]
  ELSE IF ~fetched.ok THEN [store |-> store, resp |-> 500]
  ELSE
    LET pd == CancelPaymentData(fetched.session)
        filter == {[stripeCheckoutSessionId |-> fetched.session.id]}
    IN [ store |-> FindOneAndUpdate(store, filter, pd, TRUE,
                        [stripeCheckoutSessionId |-> fetched.session.id]),
         resp |-> 200 ]

-----------------------------------------------------------------------------
(* Webhook handlers, lines 521-610.  Each answers [store, threw]: threw is    *)
(* TRUE when the handler raises (a TypeError on a missing property, or a     *)
(* rejected processor call), in which case nothing was written.              *)

Threw(store) == [store |-> store, threw |-> TRUE]
Done(store) == [store |-> store, threw |-> FALSE]

\* lines 521-550.  fetch: the answer of stripe.paymentIntents.retrieve.
\* pi.charges.data[0] must be a charge with payment_method_details.card.
handleInvoicePaymentSucceeded(store, invoice, fetch) ==
  IF invoice.payment_intent = NULL \/ ~fetch.ok THEN Threw(store)
  ELSE IF fetch.chargeKind # "card" THEN Threw(store)
  ELSE
    LET paymentData ==
          [ amount |-> MinorToMajor(invoice.amount),
            currency |-> invoice.currency,
            status |-> "succeeded",
            stripePaymentIntentId |-> invoice.payment_intent,
            stripeChargeId |-> ChargeOf(invoice.payment_intent),
            stripeSubscriptionId |-> invoice.subscription,
            cardBrand |-> Card.brand,
            cardLast4 |-> Card.last4,
            createdAt |-> SecondsToDate(invoice.created) ]
        filter == {[stripePaymentIntentId |-> invoice.payment_intent]}
    IN Done(FindOneAndUpdate(store, filter, paymentData, TRUE,
                             [stripePaymentIntentId |-> invoice.payment_intent]))

\* lines 562-570: the update document of handlePaymentIntentSucceeded
PaymentIntentUpdate(pi) ==
  [ amount |-> MinorToMajor(pi.amount),
    currency |-> pi.currency,
    status |-> "succeeded",
    stripeChargeId |-> ChargeOf(pi.id),
    cardBrand |-> Card.brand,
    cardLast4 |-> Card.last4 ]

\* lines 555-575.  pi.charges.data[0] must be a charge with
\* payment_method_details.card, else line 558 or 566-568 raises a TypeError
handlePaymentIntentSucceeded(store, pi) ==
  IF pi.chargeKind # "card" THEN Threw(store)
  ELSE Done(FindOneAndUpdate(store, {[stripePaymentIntentId |-> pi.id]},
                             PaymentIntentUpdate(pi), TRUE,
                             [stripePaymentIntentId |-> pi.id]))

\* lines 580-596
handleChargeSucceeded(store, charge) ==
  IF charge.chargeKind # "card" THEN Threw(store)
  ELSE
    LET upd == [ stripePaymentIntentId |-> charge.payment_intent,
                 status |-> "succeeded",
                 cardBrand |-> Card.brand,
                 cardLast4 |-> Card.last4 ]
    IN Done(FindOneAndUpdate(store, {[stripeChargeId |-> charge.id]}, upd, TRUE,
                             [stripeChargeId |-> charge.id]))

\* lines 601-610: no upsert
handleInvoicePaid(store, invoice) ==
  Done(FindOneAndUpdate(store, {[stripePaymentIntentId |-> invoice.payment_intent]},
                        [status |-> "succeeded"], FALSE, NoSeed))

-----------------------------------------------------------------------------
(* Subscription-schedule handlers, lines 616-759.  Each runs inside its own  *)
(* try/catch, which logs what is raised and returns normally.  Each answers  *)
(* [plans, failed]: failed is TRUE when something was raised and caught.     *)

\* the plan ids of the Plan collection are ObjectIds; Mongoose raises a
\* CastError when asked to find by an id that is not one
IsObjectId(id) == id # "not-an-id"

\* lines 625-634: updateData, a start or end the phase lacks is not written
PhaseUpdateData(phase) ==
  LET fields == (IF phase.start_date # 0 THEN {"currentPeriodStart"} ELSE {})
                \cup (IF phase.end_date # 0 THEN {"currentPeriodEnd"} ELSE {})
  IN [f \in fields |-> IF f = "currentPeriodStart"
                       THEN SecondsToDate(phase.start_date)
                       ELSE SecondsToDate(phase.end_date)]

\* Plan.findByIdAndUpdate(planId, updateData): no upsert
PlanFindByIdAndUpdate(planDb, planId, updateData) ==
  IF ~IsObjectId(planId) THEN [plans |-> planDb, failed |-> TRUE]
  ELSE IF planId \notin DOMAIN planDb THEN [plans |-> planDb, failed |-> FALSE]
  ELSE [plans |-> [planDb EXCEPT ![planId] = Merge(@, updateData)],
        failed |-> FALSE]

\* WriteFirstPhaseDates reading the last phase, as the expiring handler does
WriteLastPhaseDates(planDb, schedule) ==
  IF schedule.metaPlan = NULL \/ Len(schedule.phases) = 0
  THEN [plans |-> planDb, failed |-> FALSE]
  ELSE LET updateData == PhaseUpdateData(schedule.phases[Len(schedule.phases)]) IN
       IF DOMAIN updateData = {} THEN [plans |-> planDb, failed |-> FALSE]
       ELSE PlanFindByIdAndUpdate(planDb, schedule.metaPlan, updateData)

\* the body the created, completed and updated handlers share: the dates of
\* schedule.phases[0] go to the plan named by schedule.metadata.planId
WriteFirstPhaseDates(planDb, schedule) ==
  IF schedule.metaPlan = NULL \/ Len(schedule.phases) = 0
  THEN [plans |-> planDb, failed |-> FALSE]
  ELSE LET updateData == PhaseUpdateData(schedule.phases[1]) IN
       IF DOMAIN updateData = {} THEN [plans |-> planDb, failed |-> FALSE]
       ELSE PlanFindByIdAndUpdate(planDb, schedule.metaPlan, updateData)

\* lines 616-646
handleSubscriptionScheduleCreated(planDb, schedule) ==
  WriteFirstPhaseDates(planDb, schedule)

\* lines 648-676
handleSubscriptionScheduleCompleted(planDb, schedule) ==
  WriteFirstPhaseDates(planDb, schedule)

\* lines 711-738
handleSubscriptionScheduleUpdated(planDb, schedule) ==
  WriteFirstPhaseDates(planDb, schedule)

\* the canceled handler clearing the period dates of the plan
handleSubscriptionScheduleCanceledClearing(planDb, schedule) ==
  IF schedule.metaPlan \in DOMAIN planDb
  THEN [plans |-> [planDb EXCEPT ![schedule.metaPlan] =
                     Merge(@, [currentPeriodStart |-> 0, currentPeriodEnd |-> 0])],
        failed |-> FALSE]
  ELSE [plans |-> planDb, failed |-> FALSE]

\* lines 678-691: logs only
handleSubscriptionScheduleCanceled(planDb, schedule) ==
  [plans |-> planDb, failed |-> FALSE]

\* lines 693-709: logs only
handleSubscriptionScheduleReleased(planDb, schedule) ==
  [plans |-> planDb, failed |-> FALSE]

\* lines 740-759: logs the end of the last phase
handleSubscriptionScheduleExpiring(planDb, schedule) ==
  [plans |-> planDb, failed |-> FALSE]

-----------------------------------------------------------------------------
(* handleWebhook, lines 417-511 *)

\* VerifyStatus without the signature check of constructEvent
VerifyStatusUnchecked(e, sig) ==
  IF sig = "missing" THEN 400
  ELSE IF ~e.webhookSecret THEN 500
  ELSE IF ~e.stripeKey THEN 400
  ELSE 0

\* lines 418-445: the status the request is rejected with, 0 when it is verified
VerifyStatus(e, sig) ==
  IF sig = "missing" THEN 400
  ELSE IF ~e.webhookSecret THEN 500
  ELSE IF ~e.stripeKey THEN 400      \* stripe is null: constructEvent raises in the try
  ELSE IF sig # "good" THEN 400
  ELSE 0

\* a payment handler's outcome: what it raises reaches handleWebhook's catch
Payment(planDb, r) ==
  [store |-> r.store, plans |-> planDb, threw |-> r.threw, failed |-> r.threw]

\* a schedule handler's outcome: what it raises was caught inside the handler
Schedule(store, r) ==
  [store |-> store, plans |-> r.plans, threw |-> FALSE, failed |-> r.failed]

\* Skipped raising instead of logging
SkippedRaising(store, planDb) == Payment(planDb, Threw(store))

\* lines 466-472 and 501-502: the customer.subscription.* cases and the default
\* case log the event and do nothing else
Skipped(store, planDb) == Payment(planDb, Done(store))

\* lines 448-503: the switch on event.type.  threw: an exception reached the
\* catch of handleWebhook; failed: a handler raised one, caught wherever
Dispatch(store, planDb, ev, fetch) ==
  CASE ev.type = "invoice.payment_succeeded" ->
         Payment(planDb, handleInvoicePaymentSucceeded(store, ev, fetch))
    [] ev.type = "payment_intent.succeeded" ->
         Payment(planDb, handlePaymentIntentSucceeded(store, ev))
    [] ev.type = "charge.succeeded" -> Payment(planDb, handleChargeSucceeded(store, ev))
    [] ev.type = "invoice.paid" -> Payment(planDb, handleInvoicePaid(store, ev))
    [] ev.type = "subscription_schedule.created" ->
         Schedule(store, handleSubscriptionScheduleCreated(planDb, ev))
    [] ev.type = "subscription_schedule.completed" ->
         Schedule(store, handleSubscriptionScheduleCompleted(planDb, ev))
    [] ev.type = "subscription_schedule.canceled" ->
         Schedule(store, handleSubscriptionScheduleCanceled(planDb, ev))
    [] ev.type = "subscription_schedule.released" ->
         Schedule(store, handleSubscriptionScheduleReleased(planDb, ev))
    [] ev.type = "subscription_schedule.updated" ->
         Schedule(store, handleSubscriptionScheduleUpdated(planDb, ev))
    [] ev.type = "subscription_schedule.expiring" ->
         Schedule(store, handleSubscriptionScheduleExpiring(planDb, ev))
    [] OTHER -> Skipped(store, planDb)

\* handleWebhook without the return in front of the response to a missing
\* signature header: the request goes on to the switch and is answered again
handleWebhookFallingThrough(store, planDb, e, sig, ev, fetch) ==
  LET v == VerifyStatus(e, sig)
      r == Dispatch(store, planDb, ev, fetch)
      s == IF r.threw THEN 500 ELSE 200
  IN IF sig = "missing"
     THEN [store |-> r.store, plans |-> r.plans, resp |-> s, sent |-> <<400, s>>,
           ran |-> TRUE]
     ELSE IF v # 0
     THEN [store |-> store, plans |-> planDb, resp |-> v, sent |-> <<v>>,
           ran |-> FALSE]
     ELSE [store |-> r.store, plans |-> r.plans, resp |-> s, sent |-> <<s>>,
           ran |-> TRUE]

\* sent: the statuses of the responses the request sends, in order; resp: the
\* last of them; ran: the switch on event.type was entered
handleWebhook(store, planDb, e, sig, ev, fetch) ==
  LET v == VerifyStatus(e, sig) IN
  IF v # 0 THEN [store |-> store, plans |-> planDb, resp |-> v, sent |-> <<v>>,
                 ran |-> FALSE]
  ELSE LET r == Dispatch(store, planDb, ev, fetch)
           s == IF r.threw THEN 500 ELSE 200
       IN [store |-> r.store, plans |-> r.plans, resp |-> s, sent |-> <<s>>,
           ran |-> TRUE]

-----------------------------------------------------------------------------
(* Inputs: what browsers, the processor's API and its webhooks can send *)

\* the processor's answer to paymentIntents.retrieve; ok = FALSE: the call throws
FetchFailed ==
  [ok |-> FALSE, amount |-> 0, currency |-> NULL, status |-> NULL, chargeKind |-> "none"]

Fetches ==
  {FetchFailed} \cup
  [ ok : {TRUE}, amount : {500}, currency : {"usd"},
    status : {"succeeded"}, chargeKind : ChargeKinds ]
  \cup
  [ ok : {TRUE}, amount : {500}, currency : {"usd"},
    status : {"processing"}, chargeKind : {"none"} ]

\* checkout sessions: P's session with or without its payment intent, a session
\* object without identifiers, and another customer's paid session for the same plan
SessionsOf(id, pi) ==
  [ id : {id}, payment_intent : {pi}, amount_total : {500}, currency : {"usd"},
    payment_status : {"paid", "unpaid"}, metaPlan : {"p1"}, card : {FALSE} ]

Sessions ==
  SessionsOf(SessS, PiX) \cup SessionsOf(SessS, NULL) \cup SessionsOf(NULL, NULL)
  \cup { s \in SessionsOf(Sess2, NULL) : s.payment_status = "paid" }

\* a session object that names no plan and no total, for the planFromClient path
BareSession ==
  [ id |-> SessS, payment_intent |-> NULL, amount_total |-> 0, currency |-> "usd",
    payment_status |-> "unpaid", metaPlan |-> NULL, card |-> FALSE ]

\* request bodies of POST /payments/save-frontend: <<session, plan._id>>
SaveBodies ==
  {<<s, NULL>> : s \in Sessions} \cup
  {<<BareSession, p>> : p \in {NULL, "p1", "p9"}}

\* the fetches a save can see: one placeholder when the code performs none
SaveFetches(session) ==
  IF session.payment_intent # NULL THEN Fetches ELSE {FetchFailed}

\* stripe.checkout.sessions.retrieve for markSessionCanceled
CancelFetches ==
  { [ok |-> FALSE, session |-> BareSession] } \cup
  { [ok |-> TRUE, session |-> s] :
      s \in [ id : {SessS}, payment_intent : {PiX, NULL}, amount_total : {500},
              currency : {"usd"}, payment_status : {"paid", "unpaid"},
              metaPlan : {"p1"}, card : {FALSE} ] }

\* the calls of the cancel page: P's session id with every answer of the
\* processor, and a call without session id
CancelCalls ==
  {<<SessS, f>> : f \in CancelFetches}
  \cup {<<NULL, [ok |-> FALSE, session |-> BareSession]>>}

\* event.data.object, one shape for every event type
Obj(type, id, pi, amount, currency, kind) ==
  [ type |-> type, id |-> id, payment_intent |-> pi, amount |-> amount,
    currency |-> currency, chargeKind |-> kind, subscription |-> "sub_1",
    created |-> 100 ]

\* the two notifications of the convergence scenario
IsA(ev) == ev.type = "checkout.session.completed" /\ ev.payment_intent = PiX
IsB(ev) == ev.type = "payment_intent.succeeded" /\ ev.id = PiX

Events ==
  { Obj("invoice.payment_succeeded", "in_1", pi, 500, "usd", "none") : pi \in {PiX, NULL} }
  \cup { Obj("payment_intent.succeeded", PiX, NULL, 500, "usd", k) : k \in ChargeKinds }
  \cup { Obj("payment_intent.succeeded", Pi1, NULL, 10000, "inr", k) : k \in {"none", "card"} }
  \cup { Obj("charge.succeeded", ChC, PiX, 500, "usd", k) : k \in {"nocard", "card"} }
  \cup { Obj("invoice.paid", "in_1", pi, 500, "usd", "none") : pi \in {PiX, NULL} }
  \cup { Obj("payment_intent.payment_failed", PiX, NULL, 500, "usd", "none"),
         Obj("checkout.session.completed", SessS, PiX, 500, "usd", "none"),
         Obj("customer.subscription.created", "sub_1", NULL, 0, NULL, "none") }

\* the fetches a delivery can see: only invoice.payment_succeeded performs one,
\* and retrieve rejects a missing id
EventFetches(ev) ==
  IF ev.type = "invoice.payment_succeeded" /\ ev.payment_intent # NULL
  THEN Fetches ELSE {FetchFailed}

Signatures == {"missing", "bad", "good"}

\* the deliveries tried with each signature header: every event when it verifies,
\* one event when it is absent or forged (the body is not looked at then)
EventsSigned(sig) ==
  IF sig = "good" THEN Events
  ELSE {Obj("payment_intent.succeeded", PiX, NULL, 500, "usd", "card")}

-----------------------------------------------------------------------------
(* History variables *)

\* the request describes the logical payment P = (SessS, PiX, ChC)
SessionAboutP(session) == session.id = SessS /\ session.payment_intent = PiX

EventAboutP(ev) ==
  \/ ev.type \in {"invoice.payment_succeeded", "invoice.paid"} /\ ev.payment_intent = PiX
  \/ ev.type = "payment_intent.succeeded" /\ ev.id = PiX
  \/ ev.type = "charge.succeeded" /\ ev.id = ChC /\ ev.payment_intent = PiX

\* hist after a verified delivery of ev: the deliveries so far while they are
\* A and B of the scenario, each at most once; <<"x">> after anything else
HistAfter(h, ev) ==
  IF IsA(ev) /\ h \in {<<>>, <<"B">>} THEN Append(h, "A")
  ELSE IF IsB(ev) /\ h \in {<<>>, <<"A">>} THEN Append(h, "B")
  ELSE <<"x">>

ConcIdle == [A |-> [pc |-> "idle"], B |-> [pc |-> "idle"]]

\* last: the entry point, and for a webhook its signature header and event type
Request(op, sig, type) == [op |-> op, sig |-> sig, type |-> type]
NoRequest == Request("none", "none", "none")

-----------------------------------------------------------------------------
(* The sequential specification: requests are served one at a time *)

Init ==
  /\ payments = <<>>
  /\ plans = [p \in PlanIds |->
                [Price |-> 5, currentPeriodStart |-> 0, currentPeriodEnd |-> 0]]
  /\ env \in [stripeKey : BOOLEAN, webhookSecret : BOOLEAN]
  /\ resp = 0
  /\ onlyP = TRUE
  /\ hist = <<>>
  /\ conc = ConcIdle
  /\ last = NoRequest

\* POST /payments/save-frontend with one body, the processor answering fetch
ServeSave(body, fetch) ==
  LET r == saveFrontendSession(payments, plans, env, body[1], body[2], fetch) IN
  /\ Len(r.store) <= MaxRecords
  /\ payments' = r.store
  /\ resp' = r.resp
  /\ UNCHANGED <<plans, env, conc>>

SaveStep(body, fetch) ==
  /\ ServeSave(body, fetch)
  /\ onlyP' = (onlyP /\ SessionAboutP(body[1]))
  /\ hist' = <<"x">>

SaveFrontendSession ==
  \E body \in SaveBodies : \E fetch \in SaveFetches(body[1]) :
    SaveStep(body, fetch) /\ UNCHANGED last

\* the cancel page's call with :sessionId, the processor answering fetched
ServeCancel(sessionId, fetched) ==
  LET r == markSessionCanceled(payments, env, sessionId, fetched) IN
  /\ Len(r.store) <= MaxRecords
  /\ payments' = r.store
  /\ resp' = r.resp
  /\ UNCHANGED <<plans, env, conc>>

CancelStep(sessionId, fetched) ==
  /\ ServeCancel(sessionId, fetched)
  /\ onlyP' = (onlyP /\ sessionId = SessS /\ SessionAboutP(fetched.session))
  /\ hist' = <<"x">>

MarkSessionCanceled ==
  \E call \in CancelCalls : CancelStep(call[1], call[2]) /\ UNCHANGED last

\* POST /payments/webhook with one signature header and one event
ServeWebhook(sig, ev, fetch) ==
  LET r == handleWebhook(payments, plans, env, sig, ev, fetch) IN
  /\ Len(r.store) <= MaxRecords
  /\ payments' = r.store
  /\ plans' = r.plans
  /\ resp' = r.resp
  /\ UNCHANGED <<env, conc>>

WebhookStep(sig, ev, fetch) ==
  /\ ServeWebhook(sig, ev, fetch)
  /\ onlyP' = (onlyP /\ VerifyStatus(env, sig) = 0 /\ EventAboutP(ev))
  /\ hist' = IF VerifyStatus(env, sig) = 0 THEN HistAfter(hist, ev) ELSE <<"x">>

HandleWebhook ==
  \E sig \in Signatures : \E ev \in EventsSigned(sig) : \E fetch \in EventFetches(ev) :
    WebhookStep(sig, ev, fetch) /\ UNCHANGED last

Next == SaveFrontendSession \/ MarkSessionCanceled \/ HandleWebhook

Spec == Init /\ [][Next]_vars

-----------------------------------------------------------------------------
(* The concurrent specification: two requests about P in flight at once.    *)
(* A is saveFrontendSession with P's checkout session, B the delivery of    *)
(* payment_intent.succeeded for P's payment intent.  Node runs the code     *)
(* between two awaits without interruption; the awaited calls interleave.   *)
(* PaymentSchema declares no unique index on any identifier, so MongoDB     *)
(* does not serialise two upserts: an upsert that matches a document        *)
(* updates it in one step, one that matches none inserts afterwards, and    *)
(* another request's upsert may be served between the two.                  *)

\* the store after an earlier, unrelated payment: pi_1's payment_intent.succeeded
EarlierPaymentStore ==
  handlePaymentIntentSucceeded(<<>>,
    Obj("payment_intent.succeeded", Pi1, NULL, 10000, "inr", "card")).store

InitConc ==
  /\ payments \in {<<>>, EarlierPaymentStore}
  /\ plans = [p \in PlanIds |->
                [Price |-> 5, currentPeriodStart |-> 0, currentPeriodEnd |-> 0]]
  /\ env = [stripeKey |-> TRUE, webhookSecret |-> TRUE]
  /\ resp = 0
  /\ onlyP = TRUE
  /\ hist = <<>>
  /\ conc = ConcIdle
  /\ last = NoRequest

\* A, lines 256-304: the request arrives and Plan.findById answers
A_Start ==
  \E session \in SessionsOf(SessS, PiX) :
    /\ conc.A.pc = "idle"
    /\ conc' = [conc EXCEPT !.A = [pc |-> "retrieve", session |-> session]]
    /\ UNCHANGED <<payments, plans, env, resp, onlyP, hist, last>>

\* A, lines 307-343: stripe.paymentIntents.retrieve answers; paymentData and the
\* filter are complete
A_Retrieve ==
  \E fetch \in Fetches :
    /\ conc.A.pc = "retrieve"
    /\ conc' = [conc EXCEPT !.A =
                  [pc |-> "upsert",
                   pd |-> SavePaymentData(conc.A.session, conc.A.session.metaPlan,
                                          plans[conc.A.session.metaPlan].Price,
                                          env.stripeKey, fetch)]]
    /\ UNCHANGED <<payments, plans, env, resp, onlyP, hist, last>>

\* A, lines 345-349: the store serves the upsert's read
A_Upsert ==
  /\ conc.A.pc = "upsert"
  /\ LET r == UpsertRead(payments, SaveFilter(conc.A.pd), conc.A.pd) IN
     /\ payments' = r.store
     /\ conc' = [conc EXCEPT !.A.pc = IF r.matched THEN "done" ELSE "insert"]
  /\ UNCHANGED <<plans, env, resp, onlyP, hist, last>>

\* A, lines 345-349: nothing matched, the store inserts
A_Insert ==
  /\ conc.A.pc = "insert"
  /\ payments' = Append(payments, UpsertDoc(conc.A.pd, NoSeed))
  /\ conc' = [conc EXCEPT !.A.pc = "done"]
  /\ UNCHANGED <<plans, env, resp, onlyP, hist, last>>

\* B, lines 417-458 and 555-558: the delivery verifies and reaches its handler,
\* which raises before its store call unless the charge carries card details
B_Start ==
  \E k \in ChargeKinds :
    /\ conc.B.pc = "idle"
    /\ conc' = [conc EXCEPT !.B =
                  [pc |-> IF k = "card" THEN "upsert" ELSE "failed",
                   pi |-> Obj("payment_intent.succeeded", PiX, NULL, 500, "usd", k)]]
    /\ UNCHANGED <<payments, plans, env, resp, onlyP, hist, last>>

\* B, lines 560-572: the store serves the upsert's read
B_Upsert ==
  /\ conc.B.pc = "upsert"
  /\ LET r == UpsertRead(payments, {[stripePaymentIntentId |-> conc.B.pi.id]},
                         PaymentIntentUpdate(conc.B.pi)) IN
     /\ payments' = r.store
     /\ conc' = [conc EXCEPT !.B.pc = IF r.matched THEN "done" ELSE "insert"]
  /\ UNCHANGED <<plans, env, resp, onlyP, hist, last>>

\* B, lines 560-572: nothing matched, the store inserts
B_Insert ==
  /\ conc.B.pc = "insert"
  /\ payments' = Append(payments,
                   UpsertDoc(PaymentIntentUpdate(conc.B.pi),
                             [stripePaymentIntentId |-> conc.B.pi.id]))
  /\ conc' = [conc EXCEPT !.B.pc = "done"]
  /\ UNCHANGED <<plans, env, resp, onlyP, hist, last>>

NextConc == A_Start \/ A_Retrieve \/ A_Upsert \/ A_Insert
            \/ B_Start \/ B_Upsert \/ B_Insert

SpecConc == InitConc /\ [][NextConc]_vars

-----------------------------------------------------------------------------
(* The schedule specification: the webhook endpoint with the subscription-   *)
(* schedule notifications, next to the requests about the payment P.  The    *)
(* Plan collection changes here; last records the request served last.       *)

\* one phase of a schedule; 0: the date is absent
Phase(start, end) == [start_date |-> start, end_date |-> end]

FirstPhases == { Phase(s, e) : s \in {0, 10, 11}, e \in {0, 20} }
LaterPhase == Phase(20, 30)

WritingTypes == { "subscription_schedule.created", "subscription_schedule.completed",
                  "subscription_schedule.updated" }
LoggingTypes == { "subscription_schedule.canceled", "subscription_schedule.released",
                  "subscription_schedule.expiring" }

\* event.data.object of a subscription_schedule.* event
ScheduleObj(type, planId, phases) ==
  [ type |-> type, id |-> "sub_sched_1", metaPlan |-> planId, phases |-> phases ]

\* schedules of plan p1 with no, one or two phases; schedules without planId,
\* of a plan that does not exist and with a planId that is no ObjectId
ScheduleEvents ==
  { ScheduleObj(ty, "p1", ph) :
      ty \in WritingTypes,
      ph \in {<<>>} \cup { <<f>> : f \in FirstPhases }
               \cup { <<f, LaterPhase>> : f \in FirstPhases } }
  \cup { ScheduleObj(ty, pl, <<Phase(10, 20)>>) :
          ty \in WritingTypes, pl \in {NULL, "p9", "not-an-id"} }
  \cup { ScheduleObj(ty, "p1", ph) :
          ty \in LoggingTypes,
          ph \in {<<>>, <<Phase(11, 0)>>, <<Phase(10, 20), LaterPhase>>} }

\* the payment requests served next to them: P's session, its cancel page and
\* the notifications of the model
\* the body {session: {id, payment_intent}, plan: {_id}} of a browser that kept
\* only the identifiers of P's session: no total, no currency, no metadata
PartialSession ==
  [ id |-> SessS, payment_intent |-> PiX, amount_total |-> 0, currency |-> NULL,
    payment_status |-> "unpaid", metaPlan |-> NULL, card |-> FALSE ]

ScheduleSaveBodies ==
  { <<s, NULL>> : s \in SessionsOf(SessS, PiX) }
  \cup { <<BareSession, "p9">>, <<PartialSession, "p1">> }

ScheduleSaveFetches == { f \in Fetches : ~f.ok \/ f.chargeKind = "card" }

ScheduleCancelCalls ==
  { c \in CancelCalls :
      c[1] = NULL \/ (c[2].ok /\ SessionAboutP(c[2].session)
                               /\ c[2].session.payment_status = "unpaid") }

\* the notifications about P, with card details or bare, and the unhandled types
SchedulePaymentEvents ==
  { ev \in Events :
      /\ ev.id # Pi1
      /\ ev.type \in {"invoice.payment_succeeded", "invoice.paid"}
            => ev.payment_intent = PiX
      /\ ev.chargeKind # "nocard" }

SchedulePaymentEventsSigned(sig) ==
  IF sig = "good" THEN SchedulePaymentEvents
  ELSE {Obj("payment_intent.succeeded", PiX, NULL, 500, "usd", "card")}

SchedulePaymentFetches(ev) == EventFetches(ev) \cap ({FetchFailed} \cup ScheduleSaveFetches)

InitSchedule ==
  /\ payments = <<>>
  /\ plans = [p \in PlanIds |->
                [Price |-> 5, currentPeriodStart |-> 0, currentPeriodEnd |-> 0]]
  /\ env \in [stripeKey : {TRUE}, webhookSecret : BOOLEAN]
  /\ resp = 0
  /\ onlyP = TRUE
  /\ hist = <<>>
  /\ conc = ConcIdle
  /\ last = NoRequest

\* the deliveries tried with each signature header, as EventsSigned
ScheduleEventsSigned(sig) ==
  IF sig = "good" THEN ScheduleEvents
  ELSE {ScheduleObj("subscription_schedule.updated", "p1", <<Phase(11, 20)>>)}

ScheduleSave ==
  \E body \in ScheduleSaveBodies : \E fetch \in ScheduleSaveFetches :
    /\ ServeSave(body, fetch)
    /\ last' = Request("save", "none", "none")
    /\ UNCHANGED <<onlyP, hist>>

ScheduleCancel ==
  \E call \in ScheduleCancelCalls :
    /\ ServeCancel(call[1], call[2])
    /\ last' = Request("cancel", "none", "none")
    /\ UNCHANGED <<onlyP, hist>>

\* a payment notification, or one of an unhandled type
PaymentWebhook ==
  \E sig \in Signatures : \E ev \in SchedulePaymentEventsSigned(sig) :
    \E fetch \in SchedulePaymentFetches(ev) :
    /\ ServeWebhook(sig, ev, fetch)
    /\ last' = Request("webhook", sig, ev.type)
    /\ UNCHANGED <<onlyP, hist>>

\* a subscription_schedule.* notification
ScheduleWebhook ==
  \E sig \in Signatures : \E ev \in ScheduleEventsSigned(sig) :
    /\ ServeWebhook(sig, ev, FetchFailed)
    /\ last' = Request("webhook", sig, ev.type)
    /\ UNCHANGED <<onlyP, hist>>

NextSchedule == ScheduleSave \/ ScheduleCancel \/ PaymentWebhook \/ ScheduleWebhook

SpecSchedule == InitSchedule /\ [][NextSchedule]_vars

-----------------------------------------------------------------------------
(* The ledger specification: the requests about P with an amount that is no  *)
(* whole number of major units (4999 hundredths), and the invoice            *)
(* notifications with and without payment intent.  Both secrets are          *)
(* configured; last records the request served last.                         *)

\* P's checkout session as the browser and the processor report it
LedgerSessions ==
  [ id : {SessS}, payment_intent : {PiX, NULL}, amount_total : {4999},
    currency : {"usd"}, payment_status : {"paid", "unpaid"}, metaPlan : {"p1"},
    card : {FALSE} ]

\* paymentIntents.retrieve: fails, or answers P's payment intent with its card charge
LedgerFetches ==
  { FetchFailed,
    [ok |-> TRUE, amount |-> 4999, currency |-> "usd", status |-> "succeeded",
     chargeKind |-> "card"] }

LedgerSaveFetches(session) ==
  IF session.payment_intent # NULL THEN LedgerFetches ELSE {FetchFailed}

LedgerEvents ==
  { Obj("payment_intent.succeeded", PiX, NULL, 4999, "usd", "card"),
    Obj("charge.succeeded", ChC, PiX, 4999, "usd", "card") }
  \cup { Obj(ty, "in_1", pi, 4999, "usd", "none") :
          ty \in {"invoice.payment_succeeded", "invoice.paid"}, pi \in {PiX, NULL} }

LedgerEventFetches(ev) ==
  IF ev.type = "invoice.payment_succeeded" /\ ev.payment_intent # NULL
  THEN LedgerFetches ELSE {FetchFailed}

InitLedger ==
  /\ payments = <<>>
  /\ plans = [p \in PlanIds |->
                [Price |-> 5, currentPeriodStart |-> 0, currentPeriodEnd |-> 0]]
  /\ env = [stripeKey |-> TRUE, webhookSecret |-> TRUE]
  /\ resp = 0
  /\ onlyP = TRUE
  /\ hist = <<>>
  /\ conc = ConcIdle
  /\ last = NoRequest

LedgerSave ==
  \E session \in LedgerSessions : \E fetch \in LedgerSaveFetches(session) :
    /\ ServeSave(<<session, NULL>>, fetch)
    /\ last' = Request("save", "none", "none")
    /\ UNCHANGED <<onlyP, hist>>

LedgerCancel ==
  \E session \in LedgerSessions :
    /\ ServeCancel(session.id, [ok |-> TRUE, session |-> session])
    /\ last' = Request("cancel", "none", "none")
    /\ UNCHANGED <<onlyP, hist>>

LedgerWebhook ==
  \E ev \in LedgerEvents : \E fetch \in LedgerEventFetches(ev) :
    /\ ServeWebhook("good", ev, fetch)
    /\ last' = Request("webhook", "good", ev.type)
    /\ UNCHANGED <<onlyP, hist>>

NextLedger == LedgerSave \/ LedgerCancel \/ LedgerWebhook

SpecLedger == InitLedger /\ [][NextLedger]_vars

-----------------------------------------------------------------------------
(* Claims *)

\* both secrets are configured: the deployment the claims are about
Configured == env.stripeKey /\ env.webhookSecret

\* the positions of the documents that carry an identifier of P
RecordsOfP(store) ==
  { i \in 1..Len(store) :
      \/ store[i].stripeCheckoutSessionId = SessS
      \/ store[i].stripePaymentIntentId = PiX
      \/ store[i].stripeChargeId = ChC }

\* C1: when the session save A and the payment_intent.succeeded delivery B for
\* the same payment have both been served, in whatever interleaving, exactly one
\* document carries an identifier of that payment.
C1_OneRecordUnderConcurrency ==
  (conc.A.pc = "done" /\ conc.B.pc = "done")
    => Cardinality(RecordsOfP(payments)) = 1

\* C2: as long as every request served described the logical payment P, at most
\* one document carries its session, payment-intent or charge identifier.
C2_AtMostOneRecordOfP ==
  (Configured /\ onlyP) => Cardinality(RecordsOfP(payments)) <= 1

\* C3: with only requests about P served, a session save whose payment_status
\* is not paid never turns a document whose status is succeeded back to pending.
C3_SucceededNotRevertedToPending ==
  [][ \A body \in SaveBodies : \A fetch \in SaveFetches(body[1]) :
        (/\ Configured /\ onlyP'
         /\ body[1].payment_status # "paid"
         /\ SaveStep(body, fetch))
          => \A i \in 1..Len(payments) :
               payments[i].status = "succeeded" => payments'[i].status # "pending"
    ]_vars

\* C4: after the verified deliveries A (checkout.session.completed for PiX) and
\* B (payment_intent.succeeded for PiX), in either order on an empty store, the
\* store holds exactly one document, succeeded, with payment intent PiX.
C4_ConvergesAfterAandB ==
  (Configured /\ hist \in {<<"A", "B">>, <<"B", "A">>})
    => /\ Len(payments) = 1
       /\ payments[1].status = "succeeded"
       /\ payments[1].stripePaymentIntentId = PiX

\* the store without the updatedAt of its documents
WithoutUpdatedAt(store) ==
  [i \in 1..Len(store) |->
     [f \in DOMAIN store[i] \ {"updatedAt"} |-> store[i][f]]]

\* the store after one more request of each kind
AfterSave(store, body, fetch) ==
  saveFrontendSession(store, plans, env, body[1], body[2], fetch).store
AfterCancel(store, sessionId, fetched) ==
  markSessionCanceled(store, env, sessionId, fetched).store
AfterWebhook(store, sig, ev, fetch) ==
  handleWebhook(store, plans, env, sig, ev, fetch).store

\* C5: in every reachable store, serving any request twice in a row leaves the
\* store as serving it once does, updatedAt aside.
C5_ReplayIsIdempotent ==
  /\ \A body \in SaveBodies : \A fetch \in SaveFetches(body[1]) :
       LET once == AfterSave(payments, body, fetch) IN
       WithoutUpdatedAt(AfterSave(once, body, fetch)) = WithoutUpdatedAt(once)
  /\ \A call \in CancelCalls :
       LET once == AfterCancel(payments, call[1], call[2]) IN
       WithoutUpdatedAt(AfterCancel(once, call[1], call[2])) = WithoutUpdatedAt(once)
  /\ \A sig \in Signatures : \A ev \in EventsSigned(sig) : \A fetch \in EventFetches(ev) :
       LET once == AfterWebhook(payments, sig, ev, fetch) IN
       WithoutUpdatedAt(AfterWebhook(once, sig, ev, fetch)) = WithoutUpdatedAt(once)

\* C5 witness: a store that already holds a document, on which some request
\* inserts a second one and some request rewrites the first
C5_Witness ==
  /\ Len(payments) = 1
  /\ \E sig \in Signatures : \E ev \in EventsSigned(sig) : \E fetch \in EventFetches(ev) :
       Len(AfterWebhook(payments, sig, ev, fetch)) = 2
  /\ \E body \in SaveBodies : \E fetch \in SaveFetches(body[1]) :
       LET once == AfterSave(payments, body, fetch) IN
       Len(once) = 1 /\ once # payments

\* C6: a cancel-marking call answered 200 for a session the processor reports as
\* paid does not leave status canceled on that session's document.
C6_PaidSessionNotCanceled ==
  [][ \A fetched \in CancelFetches :
        (/\ Configured
         /\ fetched.ok
         /\ fetched.session.payment_status = "paid"
         /\ CancelStep(SessS, fetched)
         /\ resp' = 200)
          => payments'[FirstMatch(payments', {[stripeCheckoutSessionId |-> SessS]})].status
               # "canceled"
    ]_vars

\* C7: a document whose status is succeeded keeps it through a cancel-marking
\* call for its checkout session.
C7_CancelKeepsSucceeded ==
  [][ \A fetched \in CancelFetches :
        (Configured /\ onlyP' /\ CancelStep(SessS, fetched))
          => \A i \in 1..Len(payments) :
               (/\ payments[i].stripeCheckoutSessionId = SessS
                /\ payments[i].status = "succeeded")
                 => payments'[i].status = "succeeded"
    ]_vars

\* C8: with only requests about P served, no request replaces a known card
\* field of a document by null or by the default "unknown".
C8_CardFieldsNotCleared ==
  [][ (Configured /\ onlyP') =>
        \A i \in 1..Len(payments) :
          /\ payments[i].cardBrand # NULL => payments'[i].cardBrand # NULL
          /\ payments[i].cardLast4 # NULL => payments'[i].cardLast4 # NULL
          /\ payments[i].cardFunding # "unknown" => payments'[i].cardFunding # "unknown"
          /\ payments[i].cardExpMonth # 0 => payments'[i].cardExpMonth # 0
          /\ payments[i].cardExpYear # 0 => payments'[i].cardExpYear # 0
    ]_vars

\* the payload {id: pi_1, amount: 10000, currency: inr}, no charge attached
BarePaymentIntent == Obj("payment_intent.succeeded", Pi1, NULL, 10000, "inr", "none")

\* C9: on an empty store the verified delivery of payment_intent.succeeded with
\* the bare payload is answered 200 and leaves one document: pi_1, 100.00, inr,
\* succeeded.
C9_BarePaymentIntentCreatesRecord ==
  [][ (/\ payments = <<>>
       /\ VerifyStatus(env, "good") = 0
       /\ WebhookStep("good", BarePaymentIntent, FetchFailed))
        => /\ resp' = 200
           /\ Len(payments') = 1
           /\ payments'[1].stripePaymentIntentId = Pi1
           /\ payments'[1].amount = Amount(100, 0)
           /\ payments'[1].currency = "inr"
           /\ payments'[1].status = "succeeded"
    ]_vars

\* C10: the verified delivery of payment_intent.payment_failed for PiX moves a
\* pending document of PiX to failed.
C10_PaymentFailedMarksFailed ==
  [][ (/\ VerifyStatus(env, "good") = 0
       /\ onlyP
       /\ WebhookStep("good",
            Obj("payment_intent.payment_failed", PiX, NULL, 500, "usd", "none"),
            FetchFailed))
        => \A i \in 1..Len(payments) :
             (/\ payments[i].stripePaymentIntentId = PiX
              /\ payments[i].status = "pending")
               => payments'[i].status = "failed"
    ]_vars

-----------------------------------------------------------------------------
(* Claims about the webhook endpoint and the schedule tracker, checked under *)
(* SpecSchedule                                                              *)

\* the last step served a webhook request
WebhookServed(sig) == last'.op = "webhook" /\ last'.sig = sig

\* C11: a webhook request without signature header, or with a signature that
\* fails the verification against the configured secret, is answered 400 and
\* changes neither the Payment collection nor any plan.
C11_BadSignatureRejected ==
  [][ (\/ WebhookServed("missing")
       \/ (WebhookServed("bad") /\ env.webhookSecret))
        => (resp' = 400 /\ payments' = payments /\ plans' = plans)
    ]_vars

\* C11 witness: a forged request was just answered 400, with documents in the
\* store and period dates on the plan
C11_Witness ==
  /\ last.op = "webhook" /\ last.sig = "bad" /\ env.webhookSecret
  /\ resp = 400
  /\ Len(payments) > 0
  /\ plans["p1"].currentPeriodStart # 0

\* C12: without a configured verification secret every webhook request, with
\* or without signature header, is answered 500 and changes nothing.
C12_NoSecretIsServerError ==
  [][ (last'.op = "webhook" /\ ~env.webhookSecret)
        => (resp' = 500 /\ payments' = payments /\ plans' = plans)
    ]_vars

\* the event types of the model that no handler is called for
UnhandledTypes == { "checkout.session.completed", "payment_intent.payment_failed",
                    "customer.subscription.created" }

\* C13: a verified webhook of a type that is not handled is answered 200 and
\* changes neither the Payment collection nor any plan.
C13_UnhandledTypeAcknowledged ==
  [][ (/\ WebhookServed("good")
       /\ VerifyStatus(env, "good") = 0
       /\ last'.type \in UnhandledTypes)
        => (resp' = 200 /\ payments' = payments /\ plans' = plans)
    ]_vars

\* C13 witness: an unhandled type was just acknowledged, with documents in the
\* store and period dates on the plan
C13_Witness ==
  /\ last.op = "webhook" /\ last.sig = "good" /\ last.type \in UnhandledTypes
  /\ resp = 200
  /\ Len(payments) > 0
  /\ plans["p1"].currentPeriodEnd # 0

\* C17: a verified notification whose handler raises is answered 500, for the
\* payment handlers and for the subscription-schedule handlers alike.
C17_FailedProcessingIsServerError ==
  [][ /\ \A ev \in SchedulePaymentEvents : \A fetch \in SchedulePaymentFetches(ev) :
           (/\ VerifyStatus(env, "good") = 0
            /\ Dispatch(payments, plans, ev, fetch).failed
            /\ ServeWebhook("good", ev, fetch)
            /\ last' = Request("webhook", "good", ev.type))
             => resp' = 500
      /\ \A ev \in ScheduleEvents :
           (/\ VerifyStatus(env, "good") = 0
            /\ Dispatch(payments, plans, ev, FetchFailed).failed
            /\ ServeWebhook("good", ev, FetchFailed)
            /\ last' = Request("webhook", "good", ev.type))
             => resp' = 500
    ]_vars

C20_OnlyScheduleWritersChangePlans ==
  [][ (last'.type \notin WritingTypes) => plans' = plans ]_vars

\* C20 witness: a canceled, released or expiring event was just served on a
\* plan that holds period dates, next to documents in the store
C20_Witness ==
  /\ last.op = "webhook" /\ last.sig = "good" /\ last.type \in LoggingTypes
  /\ resp = 200
  /\ plans["p1"].currentPeriodStart # 0
  /\ plans["p1"].currentPeriodEnd # 0
  /\ Len(payments) > 0

\* the document holds a charge and an amount, both taken from payment-intent,
\* invoice or charge data
PopulatedFromProcessor(doc) ==
  doc.stripeChargeId # NULL /\ doc.amount \notin {NoAmount, ZeroAmount}

\* C15: a session save whose payment intent cannot be retrieved, and a
\* cancel-marking call, leave the amount and the currency of a document that
\* took them from payment-intent or charge data.
C15_AuthoritativeAmountKept ==
  [][ (/\ last'.op \in {"save", "cancel"}
       /\ \/ \E body \in ScheduleSaveBodies : ServeSave(body, FetchFailed)
          \/ \E call \in ScheduleCancelCalls : ServeCancel(call[1], call[2]))
        => \A i \in 1..Len(payments) :
             PopulatedFromProcessor(payments[i])
               => /\ payments'[i].amount = payments[i].amount
                  /\ payments'[i].currency = payments[i].currency
    ]_vars

\* the step serves the webhook request that handleWebhook answered with r
Served(r) == payments' = r.store /\ plans' = r.plans /\ resp' = r.resp

\* what C27 says of one webhook request with signature header sig, answered r
OneResponse(r, sig) ==
  /\ Len(r.sent) = 1
  /\ r.sent[1] = r.resp
  /\ r.resp \in {200, 400, 500}
  /\ r.resp = 400 => sig \in {"missing", "bad"}
  /\ r.resp = 500 => (~env.webhookSecret \/ r.ran)
  /\ r.resp = 200 => r.ran
  /\ r.ran => (sig = "good" /\ env.webhookSecret)
  /\ ~r.ran => (r.store = payments /\ r.plans = plans)

-----------------------------------------------------------------------------
(* Claims about the merge of the store, checked under Spec *)

\* the store holds exactly the document a save of P's session created
CreatedBySessionSave(store) ==
  \E body \in SaveBodies : \E fetch \in SaveFetches(body[1]) :
    /\ SessionAboutP(body[1])
    /\ store = AfterSave(<<>>, body, fetch)

\* the authoritative notifications about P
AuthoritativeAboutP(ev) ==
  /\ EventAboutP(ev)
  /\ ev.type \in {"invoice.payment_succeeded", "payment_intent.succeeded",
                   "charge.succeeded"}

\* C14: when the store holds the document a save of P's session created, a
\* verified invoice.payment_succeeded, payment_intent.succeeded or
\* charge.succeeded about P inserts no second document, and when it is
\* answered 200 the document is succeeded.
C14_WebhookConvergesOnSavedRecord ==
  [][ \A ev \in Events : \A fetch \in EventFetches(ev) :
        (/\ Configured
         /\ CreatedBySessionSave(payments)
         /\ AuthoritativeAboutP(ev)
         /\ WebhookStep("good", ev, fetch))
          => /\ Len(payments') = 1
             /\ resp' = 200 => payments'[1].status = "succeeded"
    ]_vars

\* C16: a save and an invoice.payment_succeeded delivery whose payment-intent
\* fetch fails are still answered 200 and leave a document for the payment
\* intent.
C16_FetchFailureDoesNotAbort ==
  [][ /\ \A body \in SaveBodies :
           (/\ Configured
            /\ body[1].payment_intent # NULL
            /\ SaveStep(body, FetchFailed))
             => /\ resp' = 200
                /\ FirstMatch(payments',
                      {[stripePaymentIntentId |-> body[1].payment_intent]}) > 0
      /\ \A ev \in Events :
           (/\ Configured
            /\ ev.type = "invoice.payment_succeeded"
            /\ ev.payment_intent # NULL
            /\ WebhookStep("good", ev, FetchFailed))
             => /\ resp' = 200
                /\ FirstMatch(payments',
                      {[stripePaymentIntentId |-> ev.payment_intent]}) > 0
    ]_vars

\* C18: every document of the Payment collection has a plan.
C18_EveryRecordHasPlan ==
  \A i \in 1..Len(payments) : payments[i].plan # NULL

\* the document carries the checkout-session id or the payment-intent id of
\* the session
SharesIdentifier(doc, session) ==
  \/ session.id # NULL /\ doc.stripeCheckoutSessionId = session.id
  \/ session.payment_intent # NULL /\ doc.stripePaymentIntentId = session.payment_intent

\* C22: a save of a session that carries a checkout-session id or a
\* payment-intent id leaves every document that carries neither of them as it
\* was, also when the document has the session's plan and amount.
C22_FallbackNotUsedWithIdentifier ==
  [][ \A body \in SaveBodies : \A fetch \in SaveFetches(body[1]) :
        (/\ Configured
         /\ body[1].id # NULL \/ body[1].payment_intent # NULL
         /\ SaveStep(body, fetch))
          => \A i \in 1..Len(payments) :
               ~SharesIdentifier(payments[i], body[1]) => payments'[i] = payments[i]
    ]_vars

\* the success notifications for the payment intent PiX
SuccessAboutP(ev) ==
  /\ ev.type \in {"payment_intent.succeeded", "invoice.payment_succeeded", "invoice.paid"}
  /\ EventAboutP(ev)

\* C23: a verified payment_intent.succeeded, invoice.payment_succeeded or
\* invoice.paid for PiX turns the document that markSessionCanceled marked
\* canceled for P's session to succeeded.
C23_SuccessAfterCancel ==
  [][ \A ev \in Events : \A fetch \in EventFetches(ev) :
        (/\ Configured
         /\ SuccessAboutP(ev)
         /\ WebhookStep("good", ev, fetch))
          => \A i \in 1..Len(payments) :
               (/\ payments[i].status = "canceled"
                /\ payments[i].stripeCheckoutSessionId = SessS
                /\ payments[i].stripePaymentIntentId = PiX)
                 => payments'[i].status = "succeeded"
    ]_vars

\* C24: no request changes the createdAt of a document that is in the store.
C24_CreatedAtKept ==
  [][ Configured =>
        \A i \in 1..Len(payments) : payments'[i].createdAt = payments[i].createdAt
    ]_vars

\* C25: after a verified invoice.paid for a payment intent, answered 200, the
\* store holds a succeeded document of that payment intent, whether one
\* existed before or not.
C25_InvoicePaidMarksSucceeded ==
  [][ \A ev \in Events :
        (/\ Configured
         /\ ev.type = "invoice.paid"
         /\ ev.payment_intent # NULL
         /\ WebhookStep("good", ev, FetchFailed))
          => \E i \in 1..Len(payments') :
               /\ payments'[i].stripePaymentIntentId = ev.payment_intent
               /\ payments'[i].status = "succeeded"
    ]_vars

-----------------------------------------------------------------------------
(* Claims about amounts and invoice notifications, checked under SpecLedger *)

\* C21: with every session, payment intent and invoice reporting 4999 minor
\* units, every amount in the store is 49.99 (49 whole, 99 hundredths): no merge
\* path stores the undivided number.  A document charge.succeeded inserted has
\* no amount.
C21_AmountsDividedBy100 ==
  \A i \in 1..Len(payments) : payments[i].amount \in {NoAmount, Amount(49, 99)}

\* C21 witness: the session save, the payment-intent handler and the invoice
\* handler have each written 49.99: one document of P's session that holds the
\* invoice's subscription, right after payment_intent.succeeded
C21_Witness ==
  /\ last.op = "webhook" /\ last.type = "payment_intent.succeeded"
  /\ resp = 200
  /\ \E i \in 1..Len(payments) :
       /\ payments[i].stripeCheckoutSessionId = SessS
       /\ payments[i].stripeSubscriptionId = "sub_1"
       /\ payments[i].amount = Amount(49, 99)

\* C26: a verified invoice.paid or invoice.payment_succeeded that carries no
\* payment_intent changes no document whose stripePaymentIntentId is null.
C26_NullPaymentIntentMatchesNothing ==
  [][ \A ev \in LedgerEvents : \A fetch \in LedgerEventFetches(ev) :
        (/\ last' = Request("webhook", "good", ev.type)
         /\ ev.type \in {"invoice.paid", "invoice.payment_succeeded"}
         /\ ev.payment_intent = NULL
         /\ ServeWebhook("good", ev, fetch))
          => \A i \in 1..Len(payments) :
               payments[i].stripePaymentIntentId = NULL => payments'[i] = payments[i]
    ]_vars

====
